---- MODULE Spec2Model ----
(***************************************************************************)
(* The chunked batching pipeline of nvtabular/loader/backend.py:           *)
(* TensorBatchDatasetItr.gather_indices (the partition assigner),          *)
(* ChunkQueue.load_chunks (one worker thread per device), the capacity-1   *)
(* queue.Queue q_out with its not_full condition, ChunkQueue.stop,         *)
(* AsyncIterator.__iter__ (the consumer generator) and TensorItr (the      *)
(* batch slicer).                                                          *)
(*                                                                         *)
(* A row is a natural number: the rows of the dataset are numbered 1..N in *)
(* partition order.  A table (cudf DataFrame, tensor) is the sequence of   *)
(* its rows.  AsyncIterator.__iter__ reads self.dataset, self.library and  *)
(* self.itr_cls, which __init__ does not bind; the model takes them as     *)
(* bound by the concrete loader.  shuffle is False throughout.  The truth  *)
(* value of a DataFrame (lines 122, 142) is taken as len(df) > 0.          *)
(***************************************************************************)
EXTENDS Integers, Sequences, FiniteSets, TLC

\* ------------------------------------------------------------- bounds
MaxParts == 3
MaxPartRows == 2
MaxNumParts == 2
MaxBatch == 2
MaxDevs == 2
MaxPass == 2
MaxTotal == 6
MaxWorkers == 4

\* a q_out built with room for a second item
QueueCap_two == 1 + 1

\* capacity of q_out: queue.Queue(1)
QueueCap == 1

VARIABLES
  dataset,     \* the partitions of self.dataset: the row count of each
  num_parts,   \* ChunkQueue.num_parts
  batch_size,  \* ChunkQueue.batch_size
  ndev,        \* len(self.devices); the devices are 0 .. ndev-1, distinct
  maxPass,     \* how many times the caller iterates the AsyncIterator
  pass,        \* number of generator bodies of __iter__ started so far
  wpc,         \* position of each worker thread in load_chunks
  todo,        \* the partition indices the worker's iterator has yet to yield
  spill,       \* load_chunks' local spill
  out,         \* the tensors the worker is handing to q_out.put
  pub,         \* the items each worker has put to q_out, in order
  q_out,       \* ChunkQueue.q_out.queue
  not_full,    \* threads waiting on q_out.not_full, first waiter first
  stopped,     \* ChunkQueue._stop_event
  cpc,         \* position of the consumer in AsyncIterator.__iter__
  ends,        \* __iter__'s local ends: the worker each "end" came from
  tensors,     \* the TensorItr the consumer is iterating: its tensors
  tsrc,        \* the worker that published tensors
  idx,         \* the TensorItr's next idx
  delivered,   \* the batches yielded to the caller in the current pass
  stopInPass   \* stop() was called since the current pass started

cfgvars == <<dataset, num_parts, batch_size, ndev, maxPass>>
wvars == <<wpc, todo, spill, out, pub>>
cvars == <<cpc, ends, tensors, tsrc, idx, delivered>>
vars == <<dataset, num_parts, batch_size, ndev, maxPass, pass, wpc, todo,
          spill, out, pub, q_out, not_full, stopped, cpc, ends, tensors,
          tsrc, idx, delivered, stopInPass>>

\* ------------------------------------------------------------ Python
Min(a, b) == IF a <= b THEN a ELSE b

Max(a, b) == IF a >= b THEN a ELSE b

\* a // b, Python's floor division (b # 0)
FloorDiv(a, b) ==
  IF b > 0 THEN a \div b
  ELSE (0 - a) \div (0 - b)

\* int(a / b) for a >= 0: truncation toward zero (b # 0)
TruncDiv(a, b) ==
  IF b > 0 THEN a \div b
  ELSE 0 - (a \div (0 - b))

\* s[a:b] of a sequence, Python's slice: 0-based, a negative bound counts
\* from the end, both bounds clipped to the sequence
PySlice(s, a, b) ==
  LET n == Len(s)
      lo == IF a < 0 THEN Max(a + n, 0) ELSE Min(a, n)
      hi == IF b < 0 THEN Max(b + n, 0) ELSE Min(b, n)
  IN IF lo < hi THEN SubSeq(s, lo + 1, hi) ELSE << >>

\* cp.arange(n).tolist()
Arange(n) == [i \in 1..n |-> i - 1]

\* ----------------------------------------------------------- dataset
RECURSIVE RowsBefore(_, _)
\* the number of rows of the partitions 0 .. p-1 of the dataset ds
RowsBefore(ds, p) ==
  IF p = 0 THEN 0 ELSE RowsBefore(ds, p - 1) + ds[p]

\* the table of partition p
RowsOfPart(ds, p) == [k \in 1..ds[p + 1] |-> RowsBefore(ds, p) + k]

\* self.data.to_iter(indices=indices): the partitions of indices, in order
to_iter(indices) == indices

RECURSIVE concat_rev(_, _)
\* concat with each table put in front of the ones before it
concat_rev(ds, group) ==
  IF group = << >> THEN << >>
  ELSE concat_rev(ds, Tail(group)) \o RowsOfPart(ds, Head(group))

RECURSIVE concat(_, _)
\* cudf.core.reshape.concat of the tables of the partitions in group
concat(ds, group) ==
  IF group = << >> THEN << >>
  ELSE RowsOfPart(ds, Head(group)) \o concat(ds, Tail(group))

\* ------------------------------------------------ TensorBatchDatasetItr
\* gather_indices with per_worker lacking its + 1
gather_indices_floor(indices, total_devs, worker_id) ==
  LET per_worker == Len(indices) \div total_devs
      start == worker_id * per_worker
  IN PySlice(indices, start, start + per_worker)

gather_indices(indices, total_devs, worker_id) ==
  LET per_worker == (Len(indices) \div total_devs) + 1
      start == worker_id * per_worker
  IN PySlice(indices, start, start + per_worker)

\* ------------------------------------------------------------ ChunkQueue
\* ChunkQueue.batch: the next group of up to num_parts values of itr
batch(itr, np) == SubSeq(itr, 1, Min(np, Len(itr)))

\* get_batch_div_chunk with spill_idx rounded up instead of down
get_batch_div_chunk_ceil(chunks, bs) ==
  LET spill_idx == FloorDiv(Len(chunks) + bs - 1, bs) * bs
  IN [chunks |-> PySlice(chunks, 0, spill_idx),
      spill |-> PySlice(chunks, spill_idx, Len(chunks))]

get_batch_div_chunk(chunks, bs) ==
  LET spill_idx == TruncDiv(Len(chunks), bs) * bs
  IN [chunks |-> PySlice(chunks, 0, spill_idx),
      spill |-> PySlice(chunks, spill_idx, Len(chunks))]

\* ------------------------------------------------------------- TensorItr
\* __len__ without its - 1
TensorItrLen_over(num_samples, bs) == FloorDiv(num_samples, bs) + 1

\* TensorItr.__len__
TensorItrLen(num_samples, bs) == FloorDiv(num_samples - 1, bs) + 1

\* the batch TensorItr.__iter__ yields for idx
TensorItrBatch(t, i, bs) == PySlice(t, i, i + bs)

\* ---------------------------------------------------------------- state
Workers == (1..maxPass) \X (0..(ndev - 1))

PassWorkers(p) == {w \in Workers : w[1] = p}

Terminal == {"done", "stopped", "failed"}

Putting == {"put_chunk", "put_spill", "put_end"}

InSeq(s, x) == \E i \in 1..Len(s) : s[i] = x

Waiting(w) == InSeq(not_full, w)

\* datasets of up to maxParts partitions of 1 .. maxRows rows each: the
\* partitions all of one size, or of sizes that rotate through 1 .. maxRows
Datasets(maxParts, maxRows) ==
  {[i \in 1..n |-> k] : n \in 0..maxParts, k \in 1..maxRows}
    \cup {[i \in 1..n |-> 1 + (i % maxRows)] : n \in 0..maxParts}

InitState ==
  /\ pass = 0
  /\ wpc = [w \in Workers |-> "none"]
  /\ todo = [w \in Workers |-> << >>]
  /\ spill = [w \in Workers |-> << >>]
  /\ out = [w \in Workers |-> << >>]
  /\ pub = [w \in Workers |-> << >>]
  /\ q_out = << >>
  /\ not_full = << >>
  /\ stopped = FALSE
  /\ cpc = "idle"
  /\ ends = << >>
  /\ tensors = << >>
  /\ tsrc = <<0, 0>>
  /\ idx = 0
  /\ delivered = << >>
  /\ stopInPass = FALSE

\* one pass over a valid configuration
Init ==
  /\ dataset \in Datasets(MaxParts, MaxPartRows)
  /\ num_parts \in 1..MaxNumParts
  /\ batch_size \in 1..MaxBatch
  /\ ndev \in 1..MaxDevs
  /\ maxPass = 1
  /\ InitState

\* -------------------------------------------------------------- actions
\* AsyncIterator.__iter__, lines 218-233: the first next() of a new
\* generator starts one thread per device; the generator then waits in get
StartPass ==
  /\ cpc \in {"idle", "yield", "closed"}
  /\ pass < maxPass
  /\ pass' = pass + 1
  /\ wpc' = [w \in Workers |-> IF w[1] = pass + 1 THEN "start" ELSE wpc[w]]
  /\ cpc' = "get"
  /\ ends' = << >>
  /\ tensors' = << >>
  /\ tsrc' = <<0, 0>>
  /\ idx' = 0
  /\ delivered' = << >>
  /\ stopInPass' = FALSE
  /\ UNCHANGED <<cfgvars, todo, spill, out, pub, q_out, not_full, stopped>>

\* load_chunks enters self.batch(itr): iter(itr) gathers the worker's indices
WorkerBegin(w) ==
  /\ wpc[w] = "start"
  /\ todo' = [todo EXCEPT
       ![w] = to_iter(gather_indices(Arange(Len(dataset)), ndev, w[2]))]
  /\ wpc' = [wpc EXCEPT ![w] = "loop"]
  /\ UNCHANGED <<cfgvars, pass, spill, out, pub, q_out, not_full, stopped,
                 cvars, stopInPass>>

\* one turn of the for loop of load_chunks, lines 119-140, up to the put;
\* with the groups exhausted, lines 142-149
WorkerLoop(w) ==
  /\ wpc[w] = "loop"
  /\ IF todo[w] = << >>
     THEN /\ IF spill[w] # << >>
             THEN /\ out' = [out EXCEPT ![w] = spill[w]]
                  /\ wpc' = [wpc EXCEPT ![w] = "put_spill"]
             ELSE /\ out' = out
                  /\ wpc' = [wpc EXCEPT ![w] = "put_end"]
          /\ UNCHANGED <<todo, spill>>
     ELSE LET group == batch(todo[w], num_parts)
              rest == SubSeq(todo[w], Len(group) + 1, Len(todo[w]))
              chunks == spill[w] \o concat(dataset, group)
          IN IF stopped
             THEN /\ wpc' = [wpc EXCEPT ![w] = "stopped"]
                  /\ todo' = [todo EXCEPT ![w] = rest]
                  /\ UNCHANGED <<spill, out>>
             ELSE IF batch_size = 0
             THEN /\ wpc' = [wpc EXCEPT ![w] = "failed"]
                  /\ todo' = [todo EXCEPT ![w] = rest]
                  /\ UNCHANGED <<spill, out>>
             ELSE LET div == get_batch_div_chunk(chunks, batch_size)
                  IN /\ todo' = [todo EXCEPT ![w] = rest]
                     /\ spill' = [spill EXCEPT ![w] = div.spill]
                     /\ IF Len(div.chunks) > 0
                        THEN /\ out' = [out EXCEPT ![w] = div.chunks]
                             /\ wpc' = [wpc EXCEPT ![w] = "put_chunk"]
                        ELSE /\ out' = out
                             /\ wpc' = wpc
  /\ UNCHANGED <<cfgvars, pass, pub, q_out, not_full, stopped, cvars,
                 stopInPass>>

\* how often load_chunks has passed the table it is about to publish to
\* itr.preprocess: the aligned chunks once (line 131); the final spill
\* never, line 143 passes chunks
preprocessed(pc) == IF pc = "put_chunk" THEN 1 ELSE 0

\* PutItem with line 152 putting the (empty) tensors instead of "end"
PutItem_noend(w) ==
  [kind |-> "chunk", rows |-> out[w], src |-> w,
   prep |-> preprocessed(wpc[w])]

\* the item a worker at a put hands to q_out
PutItem(w) ==
  IF wpc[w] = "put_end"
  THEN [kind |-> "end", rows |-> << >>, src |-> w, prep |-> 0]
  ELSE [kind |-> "chunk", rows |-> out[w], src |-> w,
        prep |-> preprocessed(wpc[w])]

\* where load_chunks goes on after a put
\* AfterPut with load_chunks returning after the spill, line 152 skipped
AfterPut_noend(pc) ==
  CASE pc = "put_chunk" -> "loop"
    [] OTHER -> "done"

AfterPut(pc) ==
  CASE pc = "put_chunk" -> "loop"
    [] pc = "put_spill" -> "put_end"
    [] OTHER -> "done"

\* self.q_out.put, lines 139, 150, 152: queue.Queue.put appends when the
\* queue is not full and otherwise waits on not_full until notified
WorkerPut(w) ==
  /\ wpc[w] \in Putting
  /\ ~Waiting(w)
  /\ IF Len(q_out) < QueueCap
     THEN /\ q_out' = Append(q_out, PutItem(w))
          /\ wpc' = [wpc EXCEPT ![w] = AfterPut(wpc[w])]
          /\ out' = [out EXCEPT ![w] = << >>]
          /\ pub' = [pub EXCEPT ![w] = Append(pub[w], PutItem(w))]
          /\ UNCHANGED not_full
     ELSE /\ not_full' = Append(not_full, w)
          /\ UNCHANGED <<q_out, wpc, out, pub>>
  /\ UNCHANGED <<cfgvars, pass, todo, spill, stopped, cvars, stopInPass>>

\* the partition source or the transform (lines 131, 143) raises inside
\* load_chunks: the thread ends with the exception, nothing is published
Fault(w) ==
  /\ wpc[w] = "loop"
  /\ todo[w] # << >> \/ spill[w] # << >>
  /\ wpc' = [wpc EXCEPT ![w] = "failed"]
  /\ UNCHANGED <<cfgvars, pass, todo, spill, out, pub, q_out, not_full,
                 stopped, cvars, stopInPass>>

\* ChunkQueue.stop, lines 155-157: the deque is cleared without notifying
\* not_full
Stop ==
  /\ stopped' = TRUE
  /\ q_out' = << >>
  /\ stopInPass' = TRUE
  /\ UNCHANGED <<cfgvars, pass, wvars, not_full, cvars>>

\* the batch the TensorItr over t yields at i, as the caller receives it
Yielded(t, src, i) ==
  [src |-> src, idx |-> i, of |-> t, rows |-> TensorItrBatch(t, i, batch_size)]

\* self.buff.get() returns, lines 235-243: queue.Queue.get pops the first
\* item and notifies one waiter of not_full
ConsumerGet ==
  /\ cpc = "get"
  /\ q_out # << >>
  /\ LET chunk == Head(q_out)
     IN /\ q_out' = Tail(q_out)
        /\ not_full' = IF not_full = << >> THEN << >> ELSE Tail(not_full)
        /\ IF chunk.kind = "end"
           THEN /\ ends' = Append(ends, chunk.src)
                /\ cpc' = IF Len(ends) + 1 = ndev THEN "closed" ELSE "get"
                /\ UNCHANGED <<tensors, tsrc, idx, delivered>>
           ELSE /\ tensors' = chunk.rows
                /\ tsrc' = chunk.src
                /\ ends' = ends
                /\ IF TensorItrLen(Len(chunk.rows), batch_size) > 0
                   THEN /\ delivered' =
                             Append(delivered, Yielded(chunk.rows, chunk.src, 0))
                        /\ idx' = 1
                        /\ cpc' = "yield"
                   ELSE /\ UNCHANGED <<delivered, cpc>>
                        /\ idx' = 0
  /\ UNCHANGED <<cfgvars, pass, wvars, stopped, stopInPass>>

\* next() resumes the generator at the yield of line 243: TensorItr yields
\* its next batch or is exhausted, and the generator goes back to get
ConsumerNext ==
  /\ cpc = "yield"
  /\ IF idx < TensorItrLen(Len(tensors), batch_size)
     THEN /\ delivered' = Append(delivered, Yielded(tensors, tsrc, idx))
          /\ idx' = idx + 1
          /\ UNCHANGED cpc
     ELSE /\ cpc' = "get"
          /\ UNCHANGED <<delivered, idx>>
  /\ UNCHANGED <<cfgvars, pass, wvars, q_out, not_full, stopped, ends,
                 tensors, tsrc, stopInPass>>

Next ==
  \/ StartPass
  \/ \E w \in Workers : WorkerBegin(w)
  \/ \E w \in Workers : WorkerLoop(w)
  \/ \E w \in Workers : WorkerPut(w)
  \/ \E w \in Workers : Fault(w)
  \/ Stop
  \/ ConsumerGet
  \/ ConsumerNext

Spec == Init /\ [][Next]_vars

\* one pass over any batch_size, valid or not
InitAnyBatch ==
  /\ dataset \in Datasets(MaxParts, MaxPartRows)
  /\ num_parts \in 1..MaxNumParts
  /\ batch_size \in (0 - MaxBatch)..MaxBatch
  /\ ndev \in 1..MaxDevs
  /\ maxPass = 1
  /\ InitState

SpecAnyBatch == InitAnyBatch /\ [][Next]_vars

\* the AsyncIterator is iterated up to MaxPass times
InitReiter ==
  /\ dataset \in Datasets(MaxParts - 1, MaxPartRows)
  /\ num_parts \in 1..MaxNumParts
  /\ batch_size \in 1..MaxBatch
  /\ ndev \in 1..MaxDevs
  /\ maxPass = MaxPass
  /\ InitState

SpecReiter == InitReiter /\ [][Next]_vars

\* the partition assigner alone: the threads of one pass gather their indices
InitAssign ==
  /\ dataset \in {[i \in 1..n |-> 1] : n \in 0..MaxTotal}
  /\ num_parts = 1
  /\ batch_size = 1
  /\ ndev \in 1..MaxWorkers
  /\ maxPass = 1
  /\ InitState

NextAssign ==
  \/ StartPass
  \/ \E w \in Workers : WorkerBegin(w)

SpecAssign == InitAssign /\ [][NextAssign]_vars

\* a pass in which nobody calls stop() and nothing raises
NextQuiet ==
  \/ StartPass
  \/ \E w \in Workers : WorkerBegin(w)
  \/ \E w \in Workers : WorkerLoop(w)
  \/ \E w \in Workers : WorkerPut(w)
  \/ ConsumerGet
  \/ ConsumerNext

SpecQuiet == Init /\ [][NextQuiet]_vars

\* datasets of one-row partitions
InitLive ==
  /\ dataset \in Datasets(MaxParts, 1)
  /\ num_parts \in 1..MaxNumParts
  /\ batch_size \in 1..MaxBatch
  /\ ndev \in 1..MaxDevs
  /\ maxPass = 1
  /\ InitState

\* the threads and the caller's loop over the generator keep running: a
\* step is taken as long as one of them can take one
SpecLive == InitLive /\ [][NextQuiet]_vars /\ WF_vars(NextQuiet)

\* 7 partitions of 10 rows, num_parts = 3, batch_size = 16, one worker
InitScenario ==
  /\ dataset = [i \in 1..7 |-> 10]
  /\ num_parts = 3
  /\ batch_size = 16
  /\ ndev = 1
  /\ maxPass = 1
  /\ InitState

SpecScenario == InitScenario /\ [][Next]_vars

\* ---------------------------------------------------------------- claims
NoFault == \A w \in Workers : wpc[w] # "failed"

\* the rows of the dataset
AllRows == 1..RowsBefore(dataset, Len(dataset))

\* the places of row r in the batches yielded to the caller
Places(r) ==
  UNION {{<<i, k>> : k \in {k \in 1..Len(delivered[i].rows) :
                              delivered[i].rows[k] = r}} :
         i \in 1..Len(delivered)}

\* no thread can ever put to q_out again: each has returned, has died, or
\* waits on not_full for a get
NoProducer ==
  \A w \in Workers : wpc[w] \in Terminal \cup {"none"} \/ Waiting(w)

\* the consumer waits in get on an empty queue that no thread will fill
ConsumerBlockedForever == cpc = "get" /\ q_out = << >> /\ NoProducer

\* C1: in a pass that ran to end-of-stream with no stop() and no fault,
\* every input row is in exactly one batch handed to the consumer, and the
\* batches hold as many rows as the input.
C1_RowConservation ==
  (cpc = "closed" /\ ~stopped /\ NoFault) =>
     \A r \in AllRows : Cardinality(Places(r)) = 1

\* C2: the batch slicer yields ceil(rows / batch_size) batches of a payload,
\* and its i-th batch is rows[i*batch_size : min((i+1)*batch_size, rows)].
C2_SlicerContiguous ==
  /\ \A i \in 1..Len(delivered) :
       LET b == delivered[i]
       IN b.rows = PySlice(b.of, b.idx * batch_size,
                           Min((b.idx + 1) * batch_size, Len(b.of)))
  /\ (cpc = "get" /\ tensors # << >>) =>
        idx = (Len(tensors) + batch_size - 1) \div batch_size

\* C3: every batch handed to the consumer has batch_size rows, except at
\* most one per worker, which has 1 .. batch_size-1 rows and is that
\* worker's final spill flush.
C3_BatchSizes ==
  \A i \in 1..Len(delivered) :
    LET b == delivered[i]
    IN \/ Len(b.rows) = batch_size
       \/ /\ 1 <= Len(b.rows)
          /\ Len(b.rows) < batch_size
          /\ b.rows = b.of
          /\ wpc[b.src] \in {"put_end", "done"}
          /\ \A j \in 1..Len(delivered) :
               (j # i /\ delivered[j].src = b.src) =>
                  Len(delivered[j].rows) = batch_size

\* a worker's full batches and its undersized final batch were both handed
\* to the consumer
C3_Witness ==
  \E i, j \in 1..Len(delivered) :
    /\ delivered[i].src = delivered[j].src
    /\ Len(delivered[i].rows) = batch_size
    /\ Len(delivered[j].rows) < batch_size
    /\ cpc = "closed"

\* the workers of the pass have all gathered their indices
AllGathered == pass = 1 /\ \A w \in PassWorkers(1) : wpc[w] = "loop"

Range(s) == {s[i] : i \in 1..Len(s)}

\* C4: the slices gather_indices computes for the workers are pairwise
\* disjoint and their union is the full list of partition indices.
C4_DisjointCoverage ==
  /\ \A w \in PassWorkers(1) :
       Cardinality(Range(todo[w])) = Len(todo[w])
  /\ \A v, w \in PassWorkers(1) :
       v # w => Range(todo[v]) \cap Range(todo[w]) = {}
  /\ AllGathered =>
       UNION {Range(todo[w]) : w \in PassWorkers(1)} = 0..(Len(dataset) - 1)

\* several workers have gathered, one of them an empty slice
C4_Witness ==
  /\ AllGathered
  /\ ndev >= 3
  /\ Len(dataset) >= 4
  /\ \E w \in PassWorkers(1) : todo[w] = << >>
  /\ \E w \in PassWorkers(1) : Len(todo[w]) >= 2

\* C5: a worker's slice is [start, end) with per_worker =
\* ceil(total_partitions / num_workers), start = worker_id * per_worker and
\* end = min(start + per_worker, total_partitions).
C5_CeilSlices ==
  \A w \in PassWorkers(1) :
    wpc[w] = "loop" =>
      LET total == Len(dataset)
          per_worker == (total + ndev - 1) \div ndev
          start == w[2] * per_worker
          end == Min(start + per_worker, total)
      IN todo[w] = [k \in 1..Max(end - start, 0) |-> start + k - 1]

\* C6: after stop() the consumer never waits forever: its next() yields
\* end-of-stream without blocking.
C6_StopNeverBlocksConsumer == stopped => ~ConsumerBlockedForever

\* C7: after stop() no worker stays blocked forever in a put.
C7_WorkersReturnAfterStop ==
  stopped => ~(\E w \in Workers : Waiting(w) /\ ConsumerBlockedForever)

\* C8: when a worker fails mid-stream the consumer does not block forever
\* waiting for the failed worker's CompletionToken: the failure reaches it.
C8_FaultSurfaced ==
  (\E w \in Workers : wpc[w] = "failed") => ~ConsumerBlockedForever

\* C9: a batch_size <= 0 is rejected before any worker thread is spawned.
C9_InvalidBatchRejected ==
  batch_size <= 0 => (pass = 0 /\ \A w \in Workers : wpc[w] = "none")

\* C10: a new pass reuses no state of a prior pass: its workers return at
\* the stop check only if stop() was called in this pass, and its consumer
\* dequeues only what workers of this pass published.
C10_FreshPassState ==
  /\ \A w \in PassWorkers(pass) :
       (pass >= 2 /\ wpc[w] = "stopped") => stopInPass
  /\ \A i \in 1..Len(ends) : ends[i][1] = pass
  /\ \A i \in 1..Len(delivered) : delivered[i].src[1] = pass

\* ---------------------------------------------------------- C11 .. C20
\* the worker thread has gathered its indices
Began(w) == wpc[w] \notin {"none", "start"}

\* the partitions gather_indices hands worker w
Assigned(w) == to_iter(gather_indices(Arange(Len(dataset)), ndev, w[2]))

\* the rows of the partitions of worker w, in the order of the partitions
ExpectedRows(w) ==
  LET a == Assigned(w)
  IN IF a = << >> THEN << >>
     ELSE LET first == RowsBefore(dataset, a[1])
              last == RowsBefore(dataset, a[Len(a)] + 1)
          IN [k \in 1..(last - first) |-> first + k]

RECURSIVE Rows(_)
\* the rows of the items of a sequence of published items, in order
Rows(items) ==
  IF items = << >> THEN << >> ELSE Head(items).rows \o Rows(Tail(items))

\* the rows worker w has read and not yet published
Pending(w) ==
  CASE wpc[w] \in {"put_end", "done"} -> << >>
    [] wpc[w] = "put_spill" -> out[w]
    [] OTHER -> out[w] \o spill[w]

IsPrefix(a, b) == Len(a) <= Len(b) /\ a = SubSeq(b, 1, Len(a))

\* the row counts of the batches handed to the consumer, in order
Sizes == [i \in 1..Len(delivered) |-> Len(delivered[i].rows)]

\* C11: for every batch_size >= 1 and every chunk, the spill held after an
\* align has fewer than batch_size rows and the aligned prefix it hands on
\* has a multiple of batch_size rows.
C11_AlignResult ==
  \A w \in Workers :
    /\ Len(spill[w]) < batch_size
    /\ wpc[w] = "put_chunk" =>
         (Len(out[w]) > 0 /\ Len(out[w]) % batch_size = 0)

\* an align cut a chunk into a prefix and a spill, both with rows
C11_Witness ==
  \E w \in Workers :
    /\ wpc[w] = "put_chunk"
    /\ spill[w] # << >>
    /\ batch_size >= 2

\* C12: 7 partitions of 10 rows, num_parts 3, batch_size 16, one worker, no
\* shuffle: the consumer gets batches of 16, 16, 16, 16, 6 rows in that
\* order, then end-of-stream.
C12_ScenarioBatches ==
  (~stopped /\ NoFault) =>
     /\ IsPrefix(Sizes, <<16, 16, 16, 16, 6>>)
     /\ cpc = "closed" => Sizes = <<16, 16, 16, 16, 6>>

\* the scenario ran to end-of-stream
C12_Witness ==
  cpc = "closed" /\ ~stopped /\ NoFault /\ Len(delivered) = 5

\* C13: a worker with an empty slice publishes a CompletionToken as its
\* first and only item; with 0 partitions the pass ends with end-of-stream
\* at the consumer's first next(), every worker returned.
C13_EmptySlice ==
  /\ [](\A w \in Workers :
          (Began(w) /\ Assigned(w) = << >>) =>
             /\ wpc[w] \in {"loop", "put_end", "done"}
             /\ \A i \in 1..Len(pub[w]) : i = 1 /\ pub[w][i].kind = "end"
             /\ wpc[w] = "done" => Len(pub[w]) = 1)
  /\ (pass = 1 /\ Len(dataset) = 0) ~>
        (/\ cpc = "closed"
         /\ delivered = << >>
         /\ \A w \in Workers : wpc[w] = "done")

\* a pass with a worker of an empty slice ended, the worker's token its
\* only item
C13_Witness ==
  /\ cpc = "closed"
  /\ \E w \in Workers :
       Assigned(w) = << >> /\ Len(pub[w]) = 1 /\ pub[w][1].kind = "end"

\* C14: with no stop() and no fault the consumer of a started pass
\* eventually gets end-of-stream, whatever the number of workers on the
\* queue, and only when it has dequeued one token per worker.
C14_EndOfStream ==
  /\ [](cpc = "closed" =>
          (Len(ends) = ndev /\ Range(ends) = PassWorkers(pass)))
  /\ (pass = 1) ~> (cpc = "closed")

\* end-of-stream with several workers, after batches
C14_Witness == cpc = "closed" /\ ndev >= 2 /\ delivered # << >>

\* C15: once the stop event is set, a worker that has partitions publishes
\* nothing but the batch of the group it had begun: no final spill and no
\* CompletionToken.
C15_NoPublishAfterStop ==
  [][\A w \in Workers :
       (/\ stopped
        /\ Assigned(w) # << >>
        /\ wpc[w] \in {"put_spill", "put_end"}) =>
          pub'[w] = pub[w]]_vars

\* C16: with no stop() and no fault each worker publishes exactly one
\* CompletionToken, as the last item it publishes.
C16_OneTokenLast ==
  /\ [](\A w \in Workers :
          /\ \A i \in 1..Len(pub[w]) :
               pub[w][i].kind = "end" <=> (i = Len(pub[w]) /\ wpc[w] = "done")
          /\ wpc[w] = "done" => pub[w] # << >>)
  /\ (pass = 1) ~> (\A w \in Workers : wpc[w] = "done")

\* a worker returned after payloads, a final spill and its token
C16_Witness ==
  \E w \in Workers : wpc[w] = "done" /\ Len(pub[w]) >= 3

\* C17: q_out never holds more than one item; a worker whose put finds it
\* full waits, its item not in the queue.
C17_QueueBound ==
  /\ Len(q_out) <= 1
  /\ \A w \in Workers :
       Waiting(w) =>
          /\ wpc[w] \in Putting
          /\ q_out # << >> => q_out[1] # PutItem(w)

\* a worker waits while the queue holds another item
C17_Witness == Len(q_out) = 1 /\ \E w \in Workers : Waiting(w)

\* C18: the consumer dequeues a worker's payloads in the order the worker
\* published them, and the rows a worker published, in order, then the rows
\* it holds, are the rows of its partitions in order: all of them once it
\* returned.
C18_WorkerOrder ==
  /\ \A w \in Workers :
       LET got == Rows(pub[w]) \o Pending(w)
           exp == ExpectedRows(w)
       IN /\ IsPrefix(got, exp)
          /\ wpc[w] = "done" => Len(got) = Len(exp)
  /\ LET pos == [i \in 1..Len(delivered) |->
                  CHOOSE a \in 1..Len(pub[delivered[i].src]) :
                    pub[delivered[i].src][a].rows = delivered[i].of]
     IN \A i, j \in 1..Len(delivered) :
          (i < j /\ delivered[i].src = delivered[j].src) => pos[i] <= pos[j]

\* the consumer got two payloads of a worker that carried a spill over
C18_Witness ==
  \E i, j \in 1..Len(delivered) :
    /\ i < j
    /\ delivered[i].src = delivered[j].src
    /\ delivered[i].of # delivered[j].of
    /\ wpc[delivered[i].src] = "done"
    /\ num_parts >= 2

\* C19: the rows of every published payload, aligned prefix or final
\* spill, were passed to the transform exactly once.
C19_TransformedOnce ==
  \A w \in Workers :
    \A i \in 1..Len(pub[w]) :
      pub[w][i].kind = "chunk" => pub[w][i].prep = 1

\* C20: a turn of the loop that has fewer than batch_size rows, spill
\* included, publishes nothing and carries all of them; no payload has zero
\* rows; a worker that returned has published every row it carried.
C20_ShortGroupCarried ==
  /\ [](\A w \in Workers :
          /\ \A i \in 1..Len(pub[w]) :
               pub[w][i].kind = "chunk" => Len(pub[w][i].rows) > 0
          /\ wpc[w] = "done" =>
               Range(ExpectedRows(w)) \subseteq Range(Rows(pub[w])))
  /\ [][\A w \in Workers :
         LET rows == spill[w] \o concat(dataset, batch(todo[w], num_parts))
         IN (/\ wpc[w] = "loop"
             /\ todo'[w] # todo[w]
             /\ ~stopped
             /\ Len(rows) < batch_size) =>
               (/\ wpc'[w] = "loop"
                /\ spill'[w] = rows
                /\ pub'[w] = pub[w]
                /\ q_out' = q_out)]_vars

\* a worker returned having published nothing in one turn of its loop
C20_Witness ==
  \E w \in Workers :
    /\ wpc[w] = "done"
    /\ Len(Assigned(w)) > num_parts
    /\ Len(pub[w]) = 2

====
